---- MODULE Spec2Model ----
(***************************************************************************)
(* Model of the chaindexing ingestion / reorg-reconciliation / handling    *)
(* pipeline: EventsIngester::ingest, MaybeBacktrackIngestedEvents and      *)
(* HandleEvents, running against a chain whose head advances and whose     *)
(* recent blocks can be reorganised.                                       *)
(***************************************************************************)
EXTENDS Integers, Sequences, FiniteSets, TLC

(***************************************************************************)
(* Bounds of the model.                                                    *)
(***************************************************************************)
MaxBlock == 3            \* highest block number the chain reaches
MaxReorgs == 1           \* number of chain reorganisations
MaxBlocksPerBatch == 2   \* blocks_per_batch is drawn from 1..MaxBlocksPerBatch
MinConfirmationCount == 1     \* min_confirmation_count of the configuration
ChunkSize == 2           \* number of block numbers covered by one stream page
MaxRuns == 2             \* reconciler runs of SpecReconciler
MaxRetries == 65         \* consecutive provider errors of one fetch of SpecFetch
MaxMigrations == 2       \* user migrations of one call of SpecMigrations

Addresses == {"a1", "a2"}
AddressOrder == <<"a1", "a2">>   \* rows of chaindexing_contract_addresses by id
StartBlockNumber == 0            \* start_block_number of every contract address
Blocks == 0..MaxBlock

Min(a, b) == IF a < b THEN a ELSE b
Max(a, b) == IF a > b THEN a ELSE b

VARIABLES
    head,            \* block number of the chain head (JSON-RPC get_block_number)
    chain,           \* chain[b] = [hash, logs] for each block number b
    reorgs,          \* number of reorganisations so far
    cfg,             \* [blocks_per_batch, min_confirmation_count]
    next_ingest,     \* next_block_number_to_ingest_from per contract address
    next_handle,     \* next_block_number_to_handle_from per contract address
    events,          \* rows of chaindexing_events
    reorged_blocks,  \* rows of chaindexing_reorged_blocks, in insertion order
    states,          \* committed handler writes per contract address
    invoked,         \* handler invocations per contract address, in order
    ing,             \* the ingester task
    hnd,             \* the handler task
    last,            \* the reports of the reconciler runs of SpecReconciler
    rpc,             \* a fetch of SpecFetch: its retry loop
    mig,             \* a call of get_migrations of SpecMigrations
    net              \* the chains of Config.chains of SpecChains

vars == <<head, chain, reorgs, cfg, next_ingest, next_handle, events,
          reorged_blocks, states, invoked, ing, hnd, last, rpc, mig, net>>

(***************************************************************************)
(* The chain.  A log is identified inside its block by its log_index; the  *)
(* block hash changes when the block is reorganised.                       *)
(***************************************************************************)
Log(a, li) == [contract_address |-> a, log_index |-> li, transaction_index |-> li]

\* What a block can hold: nothing, or two logs of a1 around one of a2.
BlockLogs == { {}, {Log("a1", 0), Log("a2", 1), Log("a1", 2)} }

EmptyBlock == [hash |-> 0, logs |-> {}]

\* Config.chains, in the order EventsIngester::start iterates it.
ChainOrder == <<"c1", "c2">>
Chains == { ChainOrder[i] : i \in 1..Len(ChainOrder) }

\* net outside SpecChains: one chain, the one of head and chain.
NetIdle == [i |-> 1, chain |-> ChainOrder[1], chains |-> <<>>]

\* Events::new: the payload of the Event built from a log of block b.
EventOfLog(l, b) ==
    [contract_address |-> l.contract_address,
     block_number |-> b,
     block_hash |-> chain[b].hash,
     transaction_hash |-> <<b, l.transaction_index>>,
     transaction_index |-> l.transaction_index,
     log_index |-> l.log_index,
     removed |-> FALSE]

\* JSON-RPC get_logs for one filter: the logs of the address in the blocks
\* of [from, to] that exist at the time of the call.
GetLogs(address, from, to) ==
    { EventOfLog(l, b) : <<l, b>> \in
        { lb \in UNION { {<<l, b>> : l \in chain[b].logs} : b \in Blocks } :
            /\ lb[2] >= from /\ lb[2] <= to /\ lb[2] <= head
            /\ lb[1].contract_address = address } }

(***************************************************************************)
(* Events of the store.                                                    *)
(***************************************************************************)
Payload(e) ==
    [contract_address |-> e.contract_address,
     block_number |-> e.block_number,
     block_hash |-> e.block_hash,
     transaction_hash |-> e.transaction_hash,
     transaction_index |-> e.transaction_index,
     log_index |-> e.log_index,
     removed |-> e.removed]

\* Structural equality of events: every payload field, not the surrogate id.
EventEq(e, f) == Payload(e) = Payload(f)

\* A fresh surrogate id (uuid) for a row with payload p inserted into store:
\* the payload tagged with the first copy number no row of the store uses.
FreshId(store, p) ==
    LET n == CHOOSE k \in 0..Cardinality(store) :
                 /\ \A e \in store : e.id # <<p, k>>
                 /\ \A m \in 0..(k - 1) : \E e \in store : e.id = <<p, m>>
    IN <<p, n>>

WithId(p, id) ==
    [id |-> id,
     contract_address |-> p.contract_address,
     block_number |-> p.block_number,
     block_hash |-> p.block_hash,
     transaction_hash |-> p.transaction_hash,
     transaction_index |-> p.transaction_index,
     log_index |-> p.log_index,
     removed |-> p.removed]

\* Events::new: the Event records (each with a new id) built from fetched logs.
EventsNew(store, logs) == { WithId(p, FreshId(store, p)) : p \in logs }

\* Repo::create_events: one new row per event.
CreateEvents(store, new) == store \cup new

\* Repo::delete_events_by_ids
DeleteEventsByIds(store, ids) == { e \in store : e.id \notin ids }

\* Repo::get_events(conn, address, from, to)
GetEvents(store, address, from, to) ==
    { e \in store : /\ e.contract_address = address
                    /\ e.block_number >= from /\ e.block_number <= to }

(***************************************************************************)
(* Filters (events_ingester.rs).                                           *)
(***************************************************************************)
\* A row of chaindexing_contract_addresses as a task reads it.
\* (the columns the ingester uses)
ContractAddressRow(a) ==
    [address |-> a,
     next_block_number_to_ingest_from |-> next_ingest[a],
     start_block_number |-> StartBlockNumber]

\* (the columns the handler uses)
ContractAddressToHandle(a) ==
    [address |-> a,
     next_block_number_to_handle_from |-> next_handle[a]]

ContractAddressRows == { ContractAddressRow(a) : a \in Addresses }

Main == [kind |-> "Main", min_confirmation_count |-> 0]
Confirmation(mcc) == [kind |-> "Confirmation", min_confirmation_count |-> mcc]

\* MinConfirmationCount::deduct_from
DeductFrom(mcc, block_number, start_block_number) ==
    Max(start_block_number, Max(0, block_number - mcc))

\* Filter::new, from_block_number
FromBlockNumber(ca, execution) ==
    IF execution.kind = "Main"
    THEN ca.next_block_number_to_ingest_from
    ELSE DeductFrom(execution.min_confirmation_count,
                    ca.next_block_number_to_ingest_from, ca.start_block_number)

\* (mutant) the window of the main pass is not clamped to the chain head.
ToBlockNumberUnclamped(from_block_number, current_block_number, blocks_per_batch, execution) ==
    from_block_number + blocks_per_batch

\* Filter::new, to_block_number
ToBlockNumber(from_block_number, current_block_number, blocks_per_batch, execution) ==
    IF execution.kind = "Main"
    THEN Min(from_block_number + blocks_per_batch, current_block_number)
    ELSE from_block_number + blocks_per_batch

FilterNew(ca, current_block_number, blocks_per_batch, execution) ==
    LET from == FromBlockNumber(ca, execution)
    IN [address |-> ca.address,
        from_block |-> from,
        to_block |-> ToBlockNumber(from, current_block_number, blocks_per_batch, execution)]

\* Filters::new: one filter per contract address, without those whose
\* from_block equals their to_block.
FiltersNew(cas, current_block_number, blocks_per_batch, execution) ==
    { f \in { FilterNew(ca, current_block_number, blocks_per_batch, execution) : ca \in cas } :
        f.from_block # f.to_block }

\* (mutant) every contract address is kept.
FilterUningestedContractAddressesAll(cas, current_block_number) == cas

\* EventsIngester::filter_uningested_contract_addresses
FilterUningestedContractAddresses(cas, current_block_number) ==
    { ca \in cas : current_block_number > ca.next_block_number_to_ingest_from }

\* fetch_logs: get_logs for every filter, flattened.
FetchLogs(filters) ==
    UNION { GetLogs(f.address, f.from_block, f.to_block) : f \in filters }

(***************************************************************************)
(* Provider calls with backoff: fetch_current_block_number, fetch_logs and *)
(* fetch_blocks_by_tx_hash are the same loop around one JSON-RPC call.     *)
(***************************************************************************)
FetchFunctions == {"fetch_current_block_number", "fetch_logs", "fetch_blocks_by_tx_hash"}

\* How the crate is built: with overflow checks (debug) or without (release).
Builds == {"debug", "release"}

U64Bits == 64            \* width of the base of 2u64.pow(retries_so_far)

\* A number of seconds: 2^exp, or zero.
Pow2Secs(n) == [kind |-> "pow2", exp |-> n]
ZeroSecs == [kind |-> "zero", exp |-> 0]

\* 2u64.pow(n): 2^n while it fits 64 bits; beyond, a panic when the build
\* checks overflow, and 2^n mod 2^64 = 0 when it does not.
Pow2U64(n, build) ==
    IF n < U64Bits THEN [panic |-> FALSE, secs |-> Pow2Secs(n)]
    ELSE IF build = "debug" THEN [panic |-> TRUE, secs |-> ZeroSecs]
    ELSE [panic |-> FALSE, secs |-> ZeroSecs]

\* No fetch in progress.
RpcIdle == [fn |-> "none", build |-> "release", pc |-> "idle", maybe |-> "None",
            retries_so_far |-> 0, slept |-> ZeroSecs]

\* One pass of the loop: the JSON-RPC call returns Ok or a ProviderError.
FetchAttempt ==
    /\ rpc.pc = "call"
    /\ \E outcome \in {"Ok", "Err"} :
         rpc' = IF outcome = "Ok"
                THEN [rpc EXCEPT !.maybe = "Some", !.pc = "returned"]
                ELSE [rpc EXCEPT !.pc = "backoff"]
    /\ UNCHANGED <<net, mig, head, chain, reorgs, cfg, next_ingest, next_handle, events,
                   reorged_blocks, states, invoked, ing, hnd, last>>

\* backoff(retries_so_far).await; retries_so_far += 1
FetchBackoff ==
    /\ rpc.pc = "backoff"
    /\ rpc.retries_so_far < MaxRetries
    /\ LET p == Pow2U64(rpc.retries_so_far, rpc.build)
       IN rpc' = IF p.panic
                 THEN [rpc EXCEPT !.pc = "panicked"]
                 ELSE [rpc EXCEPT !.slept = p.secs,
                                  !.retries_so_far = @ + 1,
                                  !.pc = "call"]
    /\ UNCHANGED <<net, mig, head, chain, reorgs, cfg, next_ingest, next_handle, events,
                   reorged_blocks, states, invoked, ing, hnd, last>>

(***************************************************************************)
(* Text.  A string is a sequence of pieces of text; a piece is a           *)
(* punctuation mark, one space, one line break, or a run of letters.  A    *)
(* word that holds a text the code searches for is written as several      *)
(* pieces ("TIME" "STAMP", "owner_" "contract_address"), so that a search  *)
(* finds it wherever the search of the characters finds it.                *)
(***************************************************************************)
Whitespace == {" ", "\n"}

\* str::starts_with
StartsWith(s, p) == Len(p) <= Len(s) /\ SubSeq(s, 1, Len(p)) = p

\* str::contains
StrContains(s, p) ==
    \E i \in 1..(Len(s) - Len(p) + 1) : SubSeq(s, i, i + Len(p) - 1) = p

\* str::find: where the first occurrence of p starts, for s that contains p.
Find(s, p) ==
    CHOOSE i \in 1..(Len(s) - Len(p) + 1) :
        /\ SubSeq(s, i, i + Len(p) - 1) = p
        /\ \A j \in 1..(i - 1) : SubSeq(s, j, j + Len(p) - 1) # p

\* str::matches(p).count(): the occurrences of p, found from left to right
\* without overlap.
RECURSIVE MatchesCount(_, _)
MatchesCount(s, p) ==
    IF ~StrContains(s, p) THEN 0
    ELSE 1 + MatchesCount(SubSeq(s, Find(s, p) + Len(p), Len(s)), p)

\* str::replace(from, to)
RECURSIVE Replace(_, _, _)
Replace(s, from, to) ==
    IF ~StrContains(s, from) THEN s
    ELSE LET i == Find(s, from)
         IN SubSeq(s, 1, i - 1) \o to
            \o Replace(SubSeq(s, i + Len(from), Len(s)), from, to)

\* The numbers of the set S in increasing order.
Ascending(S) ==
    [k \in 1..Cardinality(S) |->
        CHOOSE i \in S : Cardinality({ j \in S : j < i }) = k - 1]

\* str::split(sep) for a separator of one character: the texts between
\* the separators.
Split(s, sep) ==
    LET at == Ascending({ i \in 1..Len(s) : s[i] = sep })
    IN [k \in 1..(Len(at) + 1) |->
           SubSeq(s, IF k = 1 THEN 1 ELSE at[k - 1] + 1,
                     IF k = Len(at) + 1 THEN Len(s) ELSE at[k] - 1)]

\* [String]::join(sep)
RECURSIVE Join(_, _)
Join(parts, sep) ==
    IF parts = <<>> THEN <<>>
    ELSE IF Len(parts) = 1 THEN parts[1]
    ELSE LET half == Len(parts) \div 2
         IN Join(SubSeq(parts, 1, half), sep) \o sep
            \o Join(SubSeq(parts, half + 1, Len(parts)), sep)

\* str::split_ascii_whitespace: the words of s.
SplitAsciiWhitespace(s) ==
    LET text == { i \in 1..Len(s) : s[i] \notin Whitespace }
        from == Ascending({ i \in text : i - 1 \notin text })
        to == Ascending({ i \in text : i + 1 \notin text })
    IN [k \in 1..Len(from) |-> SubSeq(s, from[k], to[k])]

\* str::trim
Trim(s) ==
    LET text == { i \in 1..Len(s) : s[i] \notin Whitespace }
    IN IF text = {} THEN <<>>
       ELSE SubSeq(s, CHOOSE i \in text : \A j \in text : i <= j,
                      CHOOSE i \in text : \A j \in text : i >= j)

\* The pieces written in capitals, with their lower-case form.
LowercasePairs ==
    { <<"CREATE", "create">>, <<"TABLE", "table">>, <<"IF", "if">>, <<"NOT", "not">>,
      <<"EXISTS", "exists">>, <<"NULL", "null">>, <<"INTEGER", "integer">>,
      <<"TEXT", "text">>, <<"BIGINT", "bigint">>, <<"UUID", "uuid">>, <<"BOOL", "bool">>,
      <<"BIGSERIAL", "bigserial">>, <<"PRIMARY", "primary">>, <<"KEY", "key">>,
      <<"CHECK", "check">>, <<"DEFAULT", "default">>, <<"UPDATE", "update">>,
      <<"SET", "set">>, <<"WHERE", "where">>, <<"IS", "is">>, <<"ALTER", "alter">>,
      <<"ADD", "add">>, <<"COLUMN", "column">>, <<"TIME", "time">>,
      <<"STAMP", "stamp">>, <<"DATE", "date">> }

\* str::to_lowercase
ToLowercase(s) ==
    [i \in 1..Len(s) |->
        IF \E p \in LowercasePairs : p[1] = s[i]
        THEN (CHOOSE p \in LowercasePairs : p[1] = s[i])[2]
        ELSE s[i]]

\* The words ws with one space between them.
Words(ws) == Join([i \in 1..Len(ws) |-> <<ws[i]>>], <<" ">>)

\* A line break and the indentation of the next line.
NewLine(indent) == <<"\n">> \o [i \in 1..indent |-> " "]

(***************************************************************************)
(* The migrations of the contract states (contract_states/migrations.rs).  *)
(***************************************************************************)
CreateTableIfNotExists == Words(<<"CREATE", "TABLE", "IF", "NOT", "EXISTS">>)

\* The prefix is one word; its letters are declared outside this file.
STATE_VERSIONS_TABLE_PREFIX == <<"<STATE_VERSIONS_TABLE_PREFIX>">>

DefaultIndent == 8       \* spaces before each line of DefaultMigration::get

\* DefaultMigration::get
DefaultMigrationGet ==
    Words(<<"state_version_group_id", "UUID", "NOT", "NULL">>) \o <<",">>
    \o NewLine(DefaultIndent) \o Words(<<"contract_address", "TEXT", "NOT", "NULL">>) \o <<",">>
    \o NewLine(DefaultIndent) \o Words(<<"chain_id", "INTEGER", "NOT", "NULL">>) \o <<",">>
    \o NewLine(DefaultIndent) \o Words(<<"block_hash", "TEXT", "NOT", "NULL">>) \o <<",">>
    \o NewLine(DefaultIndent) \o Words(<<"block_number", "BIGINT", "NOT", "NULL">>) \o <<",">>
    \o NewLine(DefaultIndent) \o Words(<<"transaction_hash", "TEXT", "NOT", "NULL">>) \o <<",">>
    \o NewLine(DefaultIndent) \o Words(<<"transaction_index", "BIGINT", "NOT", "NULL">>) \o <<",">>
    \o NewLine(DefaultIndent) \o Words(<<"log_index", "BIGINT", "NOT", "NULL">>) \o <<")">>

\* DefaultMigration::get_fields
DefaultMigrationGetFields ==
    <<"contract_address", "chain_id", "block_hash", "block_number",
      "transaction_hash", "transaction_index", "log_index">>

\* validate_migration: TRUE when it returns, FALSE when it panics.
InvalidMigrationKeywords ==
    { <<" ", "time", "stamp">>, <<" ", "time", "stamp", "z">>,
      <<" ", "date">>, <<" ", "time">> }

\* (mutant) the keywords are looked for in the migration as written.
ValidateMigrationCaseSensitive(migration) ==
    \A keyword \in InvalidMigrationKeywords : ~StrContains(migration, keyword)

ValidateMigration(migration) ==
    \A keyword \in InvalidMigrationKeywords :
        ~StrContains(ToLowercase(migration), keyword)

\* append_migration
AppendMigration(migration, migration_to_append) ==
    LET pushed == Replace(migration, <<"\n">>, <<>>) \o <<",">> \o migration_to_append
        joined == Join(SplitAsciiWhitespace(pushed), <<" ">>)
    IN Replace(Replace(Replace(joined, <<")", ",">>, <<",">>),
                       <<")", ",", ",">>, <<",">>),
               <<",", " ", ",">>, <<",">>)

\* get_remaining_state_versions_migration
GetRemainingStateVersionsMigration ==
    Words(<<"state_version_id", "BIGSERIAL", "PRIMARY", "KEY">>) \o <<",">>
    \o NewLine(DefaultIndent)
    \o Words(<<"state_version_is_deleted", "BOOL", "NOT", "NULL", "default", "false">>)
    \o <<",">>
    \o NewLine(DefaultIndent) \o DefaultMigrationGet
    \o NewLine(DefaultIndent)

\* (mutant) the view table gets the columns of the versions table.
GetRemainingStateViewsMigrationOfVersions == GetRemainingStateVersionsMigration

\* get_remaining_state_views_migration
GetRemainingStateViewsMigration == DefaultMigrationGet

\* set_state_versions_table_name
SetStateVersionsTableName(migration) ==
    Replace(migration,
            CreateTableIfNotExists \o <<" ">>,
            CreateTableIfNotExists \o <<" ">> \o STATE_VERSIONS_TABLE_PREFIX)

U8 == 256                \* repeating_state_fields_count holds u8 counts

\* The fold of remove_repeating_occurrences over the tokens of the
\* migration: count is repeating_state_fields_count.
RECURSIVE UniqueMigrationTokens(_, _, _, _)
UniqueMigrationTokens(tokens, repeating_state_fields, count, unique_migration_tokens) ==
    IF tokens = <<>> THEN unique_migration_tokens
    ELSE LET migration_token == Head(tokens)
             InToken(field) == StrContains(migration_token, <<field>>)
             found == SelectSeq(repeating_state_fields, InToken)
         IN IF found = <<>>
            THEN UniqueMigrationTokens(Tail(tokens), repeating_state_fields, count,
                                       Append(unique_migration_tokens, migration_token))
            ELSE IF count[found[1]] # 1
                 THEN UniqueMigrationTokens(
                          Tail(tokens), repeating_state_fields,
                          [count EXCEPT ![found[1]] = (@ + 1) % U8],
                          Append(unique_migration_tokens, migration_token))
                 ELSE UniqueMigrationTokens(Tail(tokens), repeating_state_fields, count,
                                            unique_migration_tokens)

\* DefaultMigration::remove_repeating_occurrences
RemoveRepeatingOccurrences(migration) ==
    LET Repeats(field) == MatchesCount(migration, <<field>>) > 1
        repeating_state_fields == SelectSeq(DefaultMigrationGetFields, Repeats)
        repeating_state_fields_count ==
            [f \in { repeating_state_fields[i] : i \in 1..Len(repeating_state_fields) } |-> 0]
    IN Join(UniqueMigrationTokens(Split(migration, ","), repeating_state_fields,
                                  repeating_state_fields_count, <<>>),
            <<",">>)

\* extract_table_name
ExtractTableName(migration) ==
    Trim(Split(Replace(migration, CreateTableIfNotExists, <<>>), "(")[1])

\* extract_table_fields: the first word of every field; the unwrap of
\* first() panics on a field without a word.
ExtractTableFields(migration) ==
    LET pieces == Split(Replace(migration, <<")">>, <<>>), "(")
        each_field == Split(pieces[Len(pieces)], ",")
        words == [i \in 1..Len(each_field) |-> SplitAsciiWhitespace(each_field[i])]
    IN IF \E i \in 1..Len(words) : words[i] = <<>>
       THEN [panic |-> TRUE, fields |-> <<>>]
       ELSE [panic |-> FALSE, fields |-> [i \in 1..Len(words) |-> words[i][1]]]

\* get_unique_index_migration_for_state_versions
GetUniqueIndexMigrationForStateVersions(table_name, table_fields) ==
    LET NotId(f) == f # <<"state_version_id">>
        fields_by_comma == Join(SelectSeq(table_fields, NotId), <<",">>)
    IN Words(<<"CREATE", "UNIQUE", "INDEX", "IF", "NOT", "EXISTS">>)
       \o <<" ", "unique_">> \o table_name \o <<" ", "ON", " ">> \o table_name
       \o <<"(">> \o fields_by_comma \o <<")">>

\* The closure of get_migrations: what one user migration becomes.
FlatMapUserMigration(user_migration) ==
    IF ~ValidateMigration(user_migration)
    THEN [panic |-> TRUE, migrations |-> <<>>]
    ELSE IF StartsWith(user_migration, CreateTableIfNotExists)
    THEN LET create_state_views_table_migration ==
                 RemoveRepeatingOccurrences(
                     AppendMigration(user_migration, GetRemainingStateViewsMigration))
             create_state_versions_table_migration ==
                 RemoveRepeatingOccurrences(
                     SetStateVersionsTableName(
                         AppendMigration(user_migration,
                                         GetRemainingStateVersionsMigration)))
             state_versions_table_name ==
                 ExtractTableName(create_state_versions_table_migration)
             state_versions_fields ==
                 ExtractTableFields(create_state_versions_table_migration)
         IN IF state_versions_fields.panic
            THEN [panic |-> TRUE, migrations |-> <<>>]
            ELSE [panic |-> FALSE,
                  migrations |->
                     <<create_state_views_table_migration,
                       create_state_versions_table_migration,
                       GetUniqueIndexMigrationForStateVersions(
                           state_versions_table_name, state_versions_fields.fields)>>]
    ELSE [panic |-> FALSE, migrations |-> <<user_migration>>]

RECURSIVE Flatten(_)
Flatten(lists) == IF lists = <<>> THEN <<>> ELSE Head(lists) \o Flatten(Tail(lists))

\* ContractStateMigrations::get_migrations
GetMigrations(user_migrations) ==
    LET mapped == [i \in 1..Len(user_migrations) |->
                      FlatMapUserMigration(user_migrations[i])]
    IN IF \E i \in 1..Len(mapped) : mapped[i].panic
       THEN [panic |-> TRUE, migrations |-> <<>>]
       ELSE [panic |-> FALSE,
             migrations |-> Flatten([i \in 1..Len(mapped) |-> mapped[i].migrations])]

(***************************************************************************)
(* User migrations.                                                        *)
(***************************************************************************)
UserIndent == 2          \* spaces before each line of a user migration

CreateNftStates == CreateTableIfNotExists \o <<" ", "nft_states", " ", "(">>

\* The migrations of the tests of migrations.rs.
NftStatesMigration ==
    CreateNftStates
    \o NewLine(UserIndent) \o Words(<<"token_id", "INTEGER", "NOT", "NULL">>) \o <<",">>
    \o NewLine(UserIndent) \o Words(<<"contract_address", "TEXT", "NOT", "NULL">>) \o <<",">>
    \o NewLine(UserIndent) \o Words(<<"owner_address", "TEXT", "NOT", "NULL">>)
    \o NewLine(UserIndent) \o <<")">>

UpdateMigration ==
    Words(<<"UPDATE", "nft_states">>)
    \o NewLine(UserIndent) \o Words(<<"SET", "owner_address", "=", "''">>)
    \o NewLine(UserIndent) \o Words(<<"WHERE", "owner_address", "IS", "NULL">>)

\* A column that declares block_number with a check on it.
CheckedBlockNumberMigration ==
    CreateNftStates \o Words(<<"token_id", "INTEGER", "NOT", "NULL">>) \o <<",", " ">>
    \o Words(<<"block_number", "BIGINT", "NOT", "NULL", "CHECK">>)
    \o <<" ", "(">> \o Words(<<"block_number", ">", "0">>) \o <<")", ")">>

\* A column whose name holds the name of a default column.
OwnerContractAddressMigration ==
    CreateNftStates \o Words(<<"token_id", "INTEGER", "NOT", "NULL">>) \o <<",", " ">>
    \o <<"owner_", "contract_address", " ", "TEXT">> \o <<")">>

\* A column whose default is a function call.
DefaultCallMigration ==
    CreateNftStates
    \o Words(<<"id", "UUID", "DEFAULT">>) \o <<" ", "gen_random_uuid", "(", ")", ",", " ">>
    \o Words(<<"token_id", "INTEGER", "NOT", "NULL">>) \o <<")">>

\* Columns of a temporal type.
TimestampMigration ==
    CreateNftStates \o Words(<<"token_id", "INTEGER", "NOT", "NULL">>) \o <<",", " ">>
    \o <<"minted_at", " ", "TIME", "STAMP">> \o <<")">>

AddDateColumnMigration ==
    Words(<<"ALTER", "TABLE", "nft_states", "ADD", "COLUMN", "minted_on", "date">>)

SampleMigrations ==
    { NftStatesMigration, UpdateMigration, CheckedBlockNumberMigration,
      OwnerContractAddressMigration, DefaultCallMigration, TimestampMigration,
      AddDateColumnMigration }

\* The lists of one to MaxMigrations user migrations.
UserMigrationLists ==
    UNION { [1..n -> SampleMigrations] : n \in 1..MaxMigrations }

\* No call of get_migrations.
MigIdle == [user |-> <<>>, pc |-> "idle", migrations |-> <<>>]

\* One call of get_migrations on the migrations of the user.
GetMigrationsCall ==
    /\ mig.pc = "call"
    /\ LET r == GetMigrations(mig.user)
       IN mig' = [mig EXCEPT !.pc = IF r.panic THEN "panicked" ELSE "returned",
                             !.migrations = r.migrations]
    /\ UNCHANGED <<net, head, chain, reorgs, cfg, next_ingest, next_handle, events,
                   reorged_blocks, states, invoked, ing, hnd, last, rpc>>

(***************************************************************************)
(* Repository transactions.                                                *)
(***************************************************************************)
Db == [events |-> events, next_ingest |-> next_ingest, reorged_blocks |-> reorged_blocks]

\* Repo::run_in_transaction: the writes of the closure are committed
\* together, or a repository error leaves the store as it was.
RunInTransaction(before, after, ok) == IF ok THEN after ELSE before

(***************************************************************************)
(* The chain: new blocks and reorganisations.                              *)
(***************************************************************************)
AdvanceHead ==
    /\ ing.pc # "dead"
    /\ head < MaxBlock
    /\ \E logs \in BlockLogs :
         chain' = [chain EXCEPT ![head + 1] = [hash |-> reorgs, logs |-> logs]]
    /\ head' = head + 1
    /\ UNCHANGED <<net, mig, rpc, last, reorgs, cfg, next_ingest, next_handle, events, reorged_blocks,
                   states, invoked, ing, hnd>>

\* The head block is replaced by a block with a new hash, which holds the
\* same logs or none.
Reorg ==
    /\ ing.pc # "dead"
    /\ reorgs < MaxReorgs
    /\ \E logs \in {{}, chain[head].logs} :
         chain' = [chain EXCEPT ![head] = [hash |-> reorgs + 1, logs |-> logs]]
    /\ reorgs' = reorgs + 1
    /\ UNCHANGED <<net, mig, rpc, last, head, cfg, next_ingest, next_handle, events, reorged_blocks,
                   states, invoked, ing, hnd>>

(***************************************************************************)
(* The ingester task (EventsIngester::start, EventsIngester::ingest).      *)
(***************************************************************************)
\* fetch_current_block_number, then the page of contract addresses,
\* filtered to the uningested ones.
IngestStart ==
    /\ ing.pc = "tick"
    /\ ing' = [pc |-> "main",
               current_block_number |-> head,
               contract_addresses |->
                   FilterUningestedContractAddresses(ContractAddressRows, head)]
    /\ UNCHANGED <<net, mig, rpc, last, head, chain, reorgs, cfg, next_ingest, next_handle, events,
                   reorged_blocks, states, invoked, hnd>>

\* (mutant) the main batch leaves the cursors where they are.
UpdateNextBlockNumbersToIngestFromNowhere(cursors, filters) == cursors

\* IngestEvents::update_next_block_numbers_to_ingest_from
UpdateNextBlockNumbersToIngestFrom(cursors, filters) ==
    [a \in Addresses |->
        IF \E f \in filters : f.address = a
        THEN (CHOOSE f \in filters : f.address = a).to_block + 1
        ELSE cursors[a]]

\* (mutant) the events are inserted outside the transaction that moves the
\* cursors.
IngestTransactionNoTxn(db, new_events, filters, ok) ==
    [events |-> CreateEvents(db.events, new_events),
     next_ingest |-> IF ok THEN UpdateNextBlockNumbersToIngestFrom(db.next_ingest, filters)
                     ELSE db.next_ingest,
     reorged_blocks |-> db.reorged_blocks]

\* The transaction of IngestEvents::run.
IngestTransaction(db, new_events, filters, ok) ==
    RunInTransaction(db,
        [events |-> CreateEvents(db.events, new_events),
         next_ingest |-> UpdateNextBlockNumbersToIngestFrom(db.next_ingest, filters),
         reorged_blocks |-> db.reorged_blocks],
        ok)

\* IngestEvents::run
IngestEventsRun ==
    /\ ing.pc = "main"
    /\ LET filters == FiltersNew(ing.contract_addresses, ing.current_block_number,
                                 cfg.blocks_per_batch, Main)
           new_events == EventsNew(events, FetchLogs(filters))
       IN IF filters = {}
          THEN /\ ing' = [ing EXCEPT !.pc = "confirm"]
               /\ UNCHANGED <<net, mig, events, next_ingest>>
          ELSE \E ok \in BOOLEAN :
               LET db == IngestTransaction(Db, new_events, filters, ok)
               IN /\ events' = db.events
                  /\ next_ingest' = db.next_ingest
                  /\ ing' = [ing EXCEPT !.pc = IF ok THEN "confirm" ELSE "dead"]
    /\ UNCHANGED <<net, mig, head, chain, reorgs, cfg, next_handle, reorged_blocks,
                   states, invoked, hnd, last, rpc>>

(***************************************************************************)
(* The reorg reconciler (MaybeBacktrackIngestedEvents).                    *)
(***************************************************************************)
ChainId == "c1"

\* get_already_ingested_events
GetAlreadyIngestedEvents(store, filters) ==
    UNION { GetEvents(store, f.address, f.from_block, f.to_block) : f \in filters }

\* get_json_rpc_events
GetJsonRpcEvents(store, filters) == EventsNew(store, FetchLogs(filters))

Contains(set, e) == \E f \in set : EventEq(e, f)

\* (mutant) the two lists are compared with the surrogate id included.
GetJsonRpcAddedAndRemovedEventsById(already_ingested_events, json_rpc_events) ==
    LET added_events == json_rpc_events \ already_ingested_events
        removed_events == already_ingested_events \ json_rpc_events
    IN [some |-> ~(added_events = {} /\ removed_events = {}),
        added_events |-> added_events,
        removed_events |-> removed_events]

\* (mutant) two events are taken for the same one when they are the same log
\* of the same block number, whatever the block hash.
GetJsonRpcAddedAndRemovedEventsByLog(already_ingested_events, json_rpc_events) ==
    LET Key(e) == <<e.contract_address, e.block_number, e.log_index>>
        added_events ==
            { e \in json_rpc_events :
                \A f \in already_ingested_events : Key(f) # Key(e) }
        removed_events ==
            { e \in already_ingested_events :
                \A f \in json_rpc_events : Key(f) # Key(e) }
    IN [some |-> ~(added_events = {} /\ removed_events = {}),
        added_events |-> added_events,
        removed_events |-> removed_events]

\* get_json_rpc_added_and_removed_events; some = FALSE stands for None.
GetJsonRpcAddedAndRemovedEvents(already_ingested_events, json_rpc_events) ==
    LET added_events ==
            { e \in json_rpc_events : ~Contains(already_ingested_events, e) }
        removed_events ==
            { e \in already_ingested_events : ~Contains(json_rpc_events, e) }
    IN [some |-> ~(added_events = {} /\ removed_events = {}),
        added_events |-> added_events,
        removed_events |-> removed_events]

MinBlockNumber(evs) ==
    CHOOSE n \in { e.block_number : e \in evs } :
        \A e \in evs : n <= e.block_number

\* (mutant) the removed events are looked at only when nothing was added.
GetEarliestBlockNumberAddedFirst(added_events, removed_events) ==
    IF added_events = {} THEN MinBlockNumber(removed_events)
    ELSE MinBlockNumber(added_events)

\* get_earliest_block_number
GetEarliestBlockNumber(added_events, removed_events) ==
    IF added_events = {} THEN MinBlockNumber(removed_events)
    ELSE IF removed_events = {} THEN MinBlockNumber(added_events)
    ELSE Min(MinBlockNumber(added_events), MinBlockNumber(removed_events))

\* (mutant) the three writes are not in one transaction: an error after the
\* deletion leaves the ReorgedBlock and the deletion without the insertion.
ReorgTransactionNoTxn(db, new_reorged_block, added_events, removed_events, ok) ==
    LET deleted == DeleteEventsByIds(db.events, { e.id : e \in removed_events })
    IN [events |-> IF ok THEN CreateEvents(deleted, added_events) ELSE deleted,
        next_ingest |-> db.next_ingest,
        reorged_blocks |-> Append(db.reorged_blocks, new_reorged_block)]

\* (mutant) the removed events are not deleted.
ReorgTransactionNoDelete(db, new_reorged_block, added_events, removed_events, ok) ==
    RunInTransaction(db,
        [events |-> CreateEvents(db.events, added_events),
         next_ingest |-> db.next_ingest,
         reorged_blocks |-> Append(db.reorged_blocks, new_reorged_block)],
        ok)

\* The transaction of maybe_handle_chain_reorg.
ReorgTransaction(db, new_reorged_block, added_events, removed_events, ok) ==
    RunInTransaction(db,
        [events |-> CreateEvents(
                        DeleteEventsByIds(db.events, { e.id : e \in removed_events }),
                        added_events),
         next_ingest |-> db.next_ingest,
         reorged_blocks |-> Append(db.reorged_blocks, new_reorged_block)],
        ok)

\* MaybeBacktrackIngestedEvents::run for the contract addresses cas in the
\* pass of the chain chain_id: the store after the run, and what the run
\* computed.
MaybeBacktrackRunFor(chain_id, db, cas, current_block_number, ok) ==
    LET filters == FiltersNew(cas, current_block_number, cfg.blocks_per_batch,
                              Confirmation(cfg.min_confirmation_count))
        already_ingested_events == GetAlreadyIngestedEvents(db.events, filters)
        json_rpc_events == GetJsonRpcEvents(db.events, filters)
        diff == GetJsonRpcAddedAndRemovedEvents(already_ingested_events, json_rpc_events)
        in_txn == filters # {} /\ diff.some
        after == IF in_txn
                 THEN ReorgTransaction(db,
                          [chain_id |-> chain_id,
                           block_number |-> GetEarliestBlockNumber(diff.added_events,
                                                                   diff.removed_events)],
                          diff.added_events, diff.removed_events, ok)
                 ELSE db
    IN [db |-> after,
        ok |-> ok \/ ~in_txn,
        in_txn |-> in_txn,
        filters |-> filters,
        already_ingested_events |-> already_ingested_events,
        json_rpc_events |-> json_rpc_events,
        added_events |-> IF filters = {} THEN {} ELSE diff.added_events,
        removed_events |-> IF filters = {} THEN {} ELSE diff.removed_events]

\* MaybeBacktrackIngestedEvents::run in the pass of the one chain.
MaybeBacktrackRun(db, cas, current_block_number, ok) ==
    MaybeBacktrackRunFor(ChainId, db, cas, current_block_number, ok)

\* (mutant) a committed repair also moves the handle cursors back to the
\* block number of its ReorgedBlock.
MaybeBacktrackIngestedEventsRunRewinding ==
    /\ ing.pc = "confirm"
    /\ \E ok \in BOOLEAN :
         LET r == MaybeBacktrackRun(Db, ing.contract_addresses,
                                    ing.current_block_number, ok)
         IN /\ r.ok = ok
            /\ events' = r.db.events
            /\ reorged_blocks' = r.db.reorged_blocks
            /\ next_handle' =
                  IF r.in_txn /\ ok
                  THEN [a \in Addresses |->
                          Min(next_handle[a],
                              GetEarliestBlockNumber(r.added_events, r.removed_events))]
                  ELSE next_handle
            /\ ing' = [ing EXCEPT !.pc = IF ok THEN "tick" ELSE "dead"]
    /\ UNCHANGED <<net, mig, head, chain, reorgs, cfg, next_ingest,
                   states, invoked, hnd, last, rpc>>

\* The reconciler step of an ingestion pass; a repository error in its
\* transaction ends the ingester task (the unwrap of EventsIngester::start).
MaybeBacktrackIngestedEventsRun ==
    /\ ing.pc = "confirm"
    /\ \E ok \in BOOLEAN :
         LET r == MaybeBacktrackRun(Db, ing.contract_addresses,
                                    ing.current_block_number, ok)
         IN /\ r.ok = ok
            /\ events' = r.db.events
            /\ reorged_blocks' = r.db.reorged_blocks
            /\ ing' = [ing EXCEPT !.pc = IF ok THEN "tick" ELSE "dead"]
    /\ UNCHANGED <<net, mig, head, chain, reorgs, cfg, next_ingest, next_handle,
                   states, invoked, hnd, last, rpc>>

(***************************************************************************)
(* The handler task (HandleEvents).                                        *)
(***************************************************************************)
\* Repo::get_events_stream(conn, from): pages of ChunkSize block numbers in
\* ascending order; the stream ends when no row is left at or above pos.
StreamEnded(store, pos) == ~ \E e \in store : e.block_number >= pos

StreamPage(store, pos) ==
    { e \in store : e.block_number >= pos /\ e.block_number < pos + ChunkSize }

\* (mutant) the stream is opened at the start block instead of the cursor.
EventsStreamFromStart(ca) == StartBlockNumber

\* The block number handle_events_for_contract_address opens the stream at.
EventsStreamFrom(ca) == ca.next_block_number_to_handle_from

\* (mutant) the filter keeps the events flagged removed.
PageFilterByAddress(page, ca) == { e \in page : e.contract_address = ca.address }

\* The filter of handle_events_for_contract_address.
PageFilter(page, ca) ==
    { e \in page : e.contract_address = ca.address /\ ~e.removed }

KeyLess(e, f) ==
    \/ e.block_number < f.block_number
    \/ e.block_number = f.block_number /\ e.log_index < f.log_index

\* events.sort_by_key(|e| (e.block_number, e.log_index))
RECURSIVE SortByKey(_)
SortByKey(evs) ==
    IF evs = {} THEN <<>>
    ELSE LET m == CHOOSE e \in evs : \A f \in evs : ~KeyLess(f, e)
         IN <<m>> \o SortByKey(evs \ {m})

\* next_block_number_to_handle_from after a page whose last event is e.
NextBlockNumberToHandleFrom(e) == e.block_number + 1

\* (mutant) the handlers write outside the transaction of the page.
PageTransactionNoTxn(hdb, ca, sorted, k) ==
    [states |-> [hdb.states EXCEPT ![ca.address] = @ \o SubSeq(sorted, 1, k)],
     next_handle |->
        IF sorted = <<>> \/ k < Len(sorted) THEN hdb.next_handle
        ELSE [hdb.next_handle EXCEPT
                ![ca.address] = NextBlockNumberToHandleFrom(sorted[Len(sorted)])]]

\* (mutant) an event whose handler fails is skipped: what the page did up
\* to it is committed with the cursor.
PageTransactionSkipFailed(hdb, ca, sorted, k) ==
    [states |-> [hdb.states EXCEPT ![ca.address] = @ \o SubSeq(sorted, 1, k)],
     next_handle |->
        IF sorted = <<>> THEN hdb.next_handle
        ELSE [hdb.next_handle EXCEPT
                ![ca.address] = NextBlockNumberToHandleFrom(sorted[Len(sorted)])]]

\* The raw-query transaction of one page: the handler writes of the events
\* of the page and the update of the handle cursor are committed together.
\* k is the number of events whose handler returns; a handler that fails
\* ends the task before the commit.
PageTransaction(hdb, ca, sorted, k) ==
    RunInTransaction(hdb,
        [states |-> [hdb.states EXCEPT ![ca.address] = @ \o sorted],
         next_handle |->
            IF sorted = <<>> THEN hdb.next_handle
            ELSE [hdb.next_handle EXCEPT
                    ![ca.address] = NextBlockNumberToHandleFrom(sorted[Len(sorted)])]],
        k = Len(sorted))

\* HandleEvents::run reads the page of contract addresses and opens the
\* events stream of the first one.
HandleStart ==
    /\ hnd.pc = "tick"
    /\ LET rows == [i \in 1..Len(AddressOrder) |-> ContractAddressToHandle(AddressOrder[i])]
       IN hnd' = [pc |-> "page", todo |-> rows, pos |-> EventsStreamFrom(rows[1])]
    /\ UNCHANGED <<net, mig, rpc, last, head, chain, reorgs, cfg, next_ingest, next_handle, events,
                   reorged_blocks, states, invoked, ing>>

\* The events stream of the current contract address has ended: go on with
\* the next contract address, or end the pass.
HandleNextContractAddress ==
    /\ hnd.pc = "page"
    /\ StreamEnded(events, hnd.pos)
    /\ LET rest == Tail(hnd.todo)
       IN hnd' = IF rest = <<>>
                 THEN [pc |-> "tick", todo |-> <<>>, pos |-> 0]
                 ELSE [pc |-> "page", todo |-> rest, pos |-> EventsStreamFrom(rest[1])]
    /\ UNCHANGED <<net, mig, rpc, last, head, chain, reorgs, cfg, next_ingest, next_handle, events,
                   reorged_blocks, states, invoked, ing>>

\* One page of handle_events_for_contract_address.
HandlePage ==
    /\ hnd.pc = "page"
    /\ ~StreamEnded(events, hnd.pos)
    /\ LET ca == hnd.todo[1]
           sorted == SortByKey(PageFilter(StreamPage(events, hnd.pos), ca))
       IN \E k \in 0..Len(sorted) :
            LET hdb == PageTransaction([states |-> states, next_handle |-> next_handle],
                                       ca, sorted, k)
            IN /\ invoked' = [invoked EXCEPT
                                ![ca.address] = @ \o SubSeq(sorted, 1, Min(k + 1, Len(sorted)))]
               /\ states' = hdb.states
               /\ next_handle' = hdb.next_handle
               /\ hnd' = IF k = Len(sorted)
                         THEN [hnd EXCEPT !.pos = @ + ChunkSize]
                         ELSE [hnd EXCEPT !.pc = "dead"]
    /\ UNCHANGED <<net, mig, head, chain, reorgs, cfg, next_ingest, events,
                   reorged_blocks, ing, last, rpc>>

(***************************************************************************)
(* Specification.                                                          *)
(***************************************************************************)
Init ==
    /\ head = StartBlockNumber + 1
    /\ \E logs \in BlockLogs :
         chain = [n \in Blocks |->
                    IF n = StartBlockNumber + 1 THEN [hash |-> 0, logs |-> logs]
                    ELSE EmptyBlock]
    /\ reorgs = 0
    /\ cfg \in [blocks_per_batch : 1..MaxBlocksPerBatch,
                 min_confirmation_count : {MinConfirmationCount}]
    /\ next_ingest = [a \in Addresses |-> StartBlockNumber]
    /\ next_handle = [a \in Addresses |-> StartBlockNumber]
    /\ events = {}
    /\ reorged_blocks = <<>>
    /\ states = [a \in Addresses |-> <<>>]
    /\ invoked = [a \in Addresses |-> <<>>]
    /\ ing = [pc |-> "tick", current_block_number |-> 0, contract_addresses |-> {}]
    /\ hnd = [pc |-> "tick", todo |-> <<>>, pos |-> 0]
    /\ last = <<>>
    /\ rpc = RpcIdle
    /\ mig = MigIdle
    /\ net = NetIdle

Next ==
    \/ AdvanceHead
    \/ Reorg
    \/ IngestStart
    \/ IngestEventsRun
    \/ MaybeBacktrackIngestedEventsRun
    \/ HandleStart
    \/ HandleNextContractAddress
    \/ HandlePage

Spec == Init /\ [][Next]_vars

TypeOK ==
    /\ head \in Blocks
    /\ \A a \in Addresses : next_ingest[a] \in Nat /\ next_handle[a] \in Nat

(***************************************************************************)
(* The reconciler on its own: MaybeBacktrackIngestedEvents::run applied to *)
(* a store and a chain drawn from bounded sets, up to MaxRuns times, with  *)
(* reorganisations of the chain in between.                                *)
(***************************************************************************)
StoredPayloads ==
    { [contract_address |-> l.contract_address,
       block_number |-> b,
       block_hash |-> h,
       transaction_hash |-> <<b, l.transaction_index>>,
       transaction_index |-> l.transaction_index,
       log_index |-> l.log_index,
       removed |-> FALSE] :
        l \in {Log("a1", 0), Log("a2", 1), Log("a1", 2)},
        b \in {StartBlockNumber + 1},
        h \in {0, 1} }

StoredRows == { WithId(p, <<p, 0>>) : p \in StoredPayloads }

InitReconciler ==
    /\ head = StartBlockNumber + 1
    /\ \E logs \in BlockLogs :
         chain = [n \in Blocks |->
                    IF n = StartBlockNumber + 1 THEN [hash |-> 0, logs |-> logs]
                    ELSE EmptyBlock]
    /\ reorgs = 0
    /\ cfg \in [blocks_per_batch : 1..MaxBlocksPerBatch,
                 min_confirmation_count : {MinConfirmationCount}]
    /\ \E n \in (StartBlockNumber + 1)..(StartBlockNumber + 2) :
         next_ingest = [a \in Addresses |-> n]
    /\ next_handle = [a \in Addresses |-> StartBlockNumber]
    /\ events \in SUBSET StoredRows
    /\ reorged_blocks = <<>>
    /\ states = [a \in Addresses |-> <<>>]
    /\ invoked = [a \in Addresses |-> <<>>]
    /\ ing = [pc |-> "confirm", current_block_number |-> head,
              contract_addresses |-> {}]
    /\ hnd = [pc |-> "tick", todo |-> <<>>, pos |-> 0]
    /\ last = <<>>
    /\ rpc = RpcIdle
    /\ mig = MigIdle
    /\ net = NetIdle

\* One run of the reconciler for all the contract addresses.
ReconcilerRun ==
    /\ Len(last) < MaxRuns
    /\ \E ok \in BOOLEAN :
         LET r == MaybeBacktrackRun(Db, ContractAddressRows, ing.current_block_number, ok)
         IN /\ r.ok = ok
            /\ events' = r.db.events
            /\ reorged_blocks' = r.db.reorged_blocks
            /\ last' = Append(last,
                   [ok |-> ok,
                    in_txn |-> r.in_txn,
                    already_ingested_events |-> r.already_ingested_events,
                    json_rpc_events |-> r.json_rpc_events,
                    added_events |-> r.added_events,
                    removed_events |-> r.removed_events,
                    chain |-> chain,
                    wrote |-> r.db # Db])
    /\ UNCHANGED <<net, mig, head, chain, reorgs, cfg, next_ingest, next_handle,
                   states, invoked, ing, hnd, rpc>>

NextReconciler == ReconcilerRun \/ Reorg

SpecReconciler == InitReconciler /\ [][NextReconciler]_vars

(***************************************************************************)
(* The fetches on their own: each of the three fetch functions, in each    *)
(* build, against a provider that fails any number of times in a row.      *)
(***************************************************************************)
InitFetch ==
    /\ head = StartBlockNumber + 1
    /\ chain = [n \in Blocks |-> EmptyBlock]
    /\ reorgs = 0
    /\ cfg = [blocks_per_batch |-> MaxBlocksPerBatch,
              min_confirmation_count |-> MinConfirmationCount]
    /\ next_ingest = [a \in Addresses |-> StartBlockNumber]
    /\ next_handle = [a \in Addresses |-> StartBlockNumber]
    /\ events = {}
    /\ reorged_blocks = <<>>
    /\ states = [a \in Addresses |-> <<>>]
    /\ invoked = [a \in Addresses |-> <<>>]
    /\ ing = [pc |-> "tick", current_block_number |-> 0, contract_addresses |-> {}]
    /\ hnd = [pc |-> "tick", todo |-> <<>>, pos |-> 0]
    /\ last = <<>>
    /\ \E fn \in FetchFunctions, build \in Builds :
         rpc = [fn |-> fn, build |-> build, pc |-> "call", maybe |-> "None",
                retries_so_far |-> 0, slept |-> ZeroSecs]
    /\ mig = MigIdle
    /\ net = NetIdle

NextFetch == FetchAttempt \/ FetchBackoff

SpecFetch == InitFetch /\ [][NextFetch]_vars

(***************************************************************************)
(* get_migrations on its own: one call on each list of user migrations.    *)
(***************************************************************************)
InitMigrations ==
    /\ head = StartBlockNumber + 1
    /\ chain = [n \in Blocks |-> EmptyBlock]
    /\ reorgs = 0
    /\ cfg = [blocks_per_batch |-> MaxBlocksPerBatch,
              min_confirmation_count |-> MinConfirmationCount]
    /\ next_ingest = [a \in Addresses |-> StartBlockNumber]
    /\ next_handle = [a \in Addresses |-> StartBlockNumber]
    /\ events = {}
    /\ reorged_blocks = <<>>
    /\ states = [a \in Addresses |-> <<>>]
    /\ invoked = [a \in Addresses |-> <<>>]
    /\ ing = [pc |-> "tick", current_block_number |-> 0, contract_addresses |-> {}]
    /\ hnd = [pc |-> "tick", todo |-> <<>>, pos |-> 0]
    /\ last = <<>>
    /\ rpc = RpcIdle
    /\ \E user \in UserMigrationLists :
         mig = [user |-> user, pc |-> "call", migrations |-> <<>>]
    /\ net = NetIdle

NextMigrations == GetMigrationsCall

SpecMigrations == InitMigrations /\ [][NextMigrations]_vars

(***************************************************************************)
(* Properties of the pipeline (specification Spec).                        *)
(***************************************************************************)
IngesterStep == ing' # ing

\* C1: whatever the interleaving of ingestion passes, reconciler passes and
\* handler pages, no step decreases next_block_number_to_ingest_from or
\* next_block_number_to_handle_from of a contract address.
C1_CursorsNeverDecrease ==
    [][\A a \in Addresses : /\ next_ingest'[a] >= next_ingest[a]
                            /\ next_handle'[a] >= next_handle[a]]_vars

\* Both cursors of a1 have moved, the handle cursor over more than one page.
C1_Witness ==
    /\ next_ingest["a1"] > StartBlockNumber + 1
    /\ next_handle["a1"] > StartBlockNumber + ChunkSize

\* C2: for every contract address,
\* start_block_number <= next_block_number_to_handle_from
\*                    <= next_block_number_to_ingest_from.
C2_HandleCursorWithinIngestCursor ==
    \A a \in Addresses : /\ StartBlockNumber <= next_handle[a]
                         /\ next_handle[a] <= next_ingest[a]

\* C3: the handler invocations of a contract address are strictly ascending
\* in (block_number, log_index), over all pages and passes.
C3_InvocationsStrictlyAscending ==
    \A a \in Addresses : \A i, j \in 1..Len(invoked[a]) :
        i < j => KeyLess(invoked[a][i], invoked[a][j])

\* C4: no two rows of the event store with the same contract_address and
\* block_number have the same (transaction_index, log_index).
C4_NoLogPersistedTwice ==
    \A e, f \in events :
        (e # f /\ e.contract_address = f.contract_address
               /\ e.block_number = f.block_number)
        => <<e.transaction_index, e.log_index>> # <<f.transaction_index, f.log_index>>

\* C5: every event a reorg repair deletes or inserts has a block_number at or
\* above the next_block_number_to_handle_from of its contract address at
\* the time the repair commits.
C5_RepairAboveHandledFrontier ==
    [][(ing.pc = "confirm" /\ IngesterStep) =>
         \A e \in (events \ events') \cup (events' \ events) :
            e.block_number >= next_handle[e.contract_address]]_vars

\* C6: a main ingestion batch either commits, for every contract address
\* with a filter [from, to], the events fetched for that window together
\* with next_block_number_to_ingest_from = to + 1, or it commits nothing;
\* no other step moves the ingest cursor.
C6_MainBatchAtomic ==
    [][\A a \in Addresses :
         LET to == Min(next_ingest[a] + cfg.blocks_per_batch, ing.current_block_number)
             inserted == { Payload(e) : e \in { x \in events' \ events :
                                                  x.contract_address = a } }
         IN IF ing.pc = "main" /\ IngesterStep
            THEN /\ events \subseteq events'
                 /\ \/ next_ingest'[a] = next_ingest[a] /\ inserted = {}
                    \/ /\ ing.current_block_number > next_ingest[a]
                       /\ next_ingest'[a] = to + 1
                       /\ inserted = GetLogs(a, next_ingest[a], to)
            ELSE next_ingest'[a] = next_ingest[a]]_vars

\* A batch has committed events of a1 and moved its cursor.
C6_Witness ==
    /\ ing.pc = "confirm"
    /\ next_ingest["a1"] > StartBlockNumber
    /\ \E e \in events : e.contract_address = "a1"

\* C7: a handler page commits the writes of all the handlers it invoked
\* together with next_block_number_to_handle_from = last_event.block_number
\* + 1, or it commits nothing.
C7_HandlerPageAtomic ==
    [][\A a \in Addresses :
         LET n == Len(states[a])
             m == Len(states'[a])
         IN (states'[a] # states[a] \/ next_handle'[a] # next_handle[a]) =>
              /\ m > n
              /\ SubSeq(states'[a], 1, n) = states[a]
              /\ next_handle'[a] = states'[a][m].block_number + 1
              /\ SubSeq(states'[a], n + 1, m) =
                     SubSeq(invoked'[a], Len(invoked[a]) + 1, Len(invoked'[a]))]_vars

\* A page of a1 has been committed.
C7_Witness ==
    /\ states["a1"] # <<>>
    /\ next_handle["a1"] = states["a1"][Len(states["a1"])].block_number + 1

\* C8: a reorg repair commits the ReorgedBlock, the deletion of every
\* removed event and the insertion of every added event together, or it
\* commits nothing.
C8_ReorgRepairAtomic ==
    [][(ing.pc = "confirm" /\ IngesterStep) =>
         LET r == MaybeBacktrackRun(Db, ing.contract_addresses,
                                    ing.current_block_number, TRUE)
         IN \/ events' = events /\ reorged_blocks' = reorged_blocks
            \/ /\ r.in_txn
               /\ Len(reorged_blocks') = Len(reorged_blocks) + 1
               /\ SubSeq(reorged_blocks', 1, Len(reorged_blocks)) = reorged_blocks
               /\ events \ events' = r.removed_events
               /\ events' \ events = r.added_events]_vars

\* A repair that replaced the events of a reorganised block has committed.
C8_Witness ==
    /\ reorged_blocks # <<>>
    /\ \E e \in events : e.block_hash > 0
    /\ \A e \in events : e.block_number <= head => e.block_hash = chain[e.block_number].hash

\* C12: a reconciler run whose diff is not empty inserts exactly one
\* ReorgedBlock, for the chain of the pass and with the least block_number
\* of the added and removed events, also when one of the two sides is
\* empty; a run whose diff is empty inserts none.
C12_OneReorgedBlockAtEarliest ==
    [][(ing.pc = "confirm" /\ IngesterStep /\ ing'.pc = "tick") =>
         LET r == MaybeBacktrackRun(Db, ing.contract_addresses,
                                    ing.current_block_number, TRUE)
             numbers == { e.block_number : e \in r.added_events \cup r.removed_events }
         IN IF numbers = {}
            THEN reorged_blocks' = reorged_blocks
            ELSE \E n \in numbers :
                   /\ \A m \in numbers : n <= m
                   /\ reorged_blocks' =
                          Append(reorged_blocks, [chain_id |-> ChainId, block_number |-> n])]_vars

\* The one repair so far had only removed events: it emptied the store.
C12_Witness ==
    /\ Len(reorged_blocks) = 1
    /\ reorged_blocks[1] = [chain_id |-> ChainId, block_number |-> StartBlockNumber + 1]
    /\ events = {}
    /\ next_ingest["a1"] > StartBlockNumber + 1

\* C13: for every contract address a main pass processes, the window is
\* from = next_block_number_to_ingest_from,
\* to = min(from + blocks_per_batch, current_block_number); a window with
\* from = to is dropped; the committed batch holds the logs of the window
\* and leaves the cursor at to + 1.
C13_MainWindow ==
    [][(ing.pc = "main" /\ IngesterStep /\ ing'.pc = "confirm") =>
         \A a \in Addresses :
            LET inserted == { e \in events' \ events : e.contract_address = a }
                from == next_ingest[a]
                to == IF from + cfg.blocks_per_batch < ing.current_block_number
                      THEN from + cfg.blocks_per_batch
                      ELSE ing.current_block_number
            IN IF (\E ca \in ing.contract_addresses : ca.address = a) /\ from # to
               THEN /\ next_ingest'[a] = to + 1
                    /\ \A e \in inserted : from <= e.block_number /\ e.block_number <= to
                    /\ \A b \in from..to : \A l \in chain[b].logs :
                          (b <= head /\ l.contract_address = a) =>
                             \E e \in inserted : /\ e.block_number = b
                                                  /\ e.log_index = l.log_index
                                                  /\ e.block_hash = chain[b].hash
               ELSE next_ingest'[a] = next_ingest[a] /\ inserted = {}]_vars

\* A committed batch of a1 whose window was cut at the current block
\* number, in a pass after the first one.
C13_Witness ==
    /\ ing.pc = "confirm"
    /\ next_ingest["a1"] = ing.current_block_number + 1
    /\ \E ca \in ing.contract_addresses :
          /\ ca.address = "a1"
          /\ ca.next_block_number_to_ingest_from > StartBlockNumber
          /\ ca.next_block_number_to_ingest_from + cfg.blocks_per_batch
                > ing.current_block_number
    /\ \E e \in events : e.contract_address = "a1" /\ e.block_number = ing.current_block_number

\* C14: when the handling of an event of a page fails, the transaction of
\* the page is not committed: next_block_number_to_handle_from keeps its
\* value and no handler write of the page is visible; the handler task ends
\* there, it neither skips the event nor handles anything after it.
C14_HandlerFailureKeepsCursor ==
    [][/\ (hnd.pc = "page" /\ hnd'.pc = "dead") =>
            /\ next_handle' = next_handle
            /\ states' = states
            /\ \E a \in Addresses :
                  /\ Len(invoked'[a]) > Len(invoked[a])
                  /\ \E e \in events : e = invoked'[a][Len(invoked'[a])]
       /\ hnd.pc = "dead" =>
            /\ hnd' = hnd
            /\ next_handle' = next_handle
            /\ states' = states
            /\ invoked' = invoked]_vars

\* A page of a1 was committed, and a later page of a1 failed after its
\* first handler had returned.
C14_Witness ==
    /\ hnd.pc = "dead"
    /\ states["a1"] # <<>>
    /\ Len(invoked["a1"]) >= Len(states["a1"]) + 2
    /\ next_handle["a1"] = states["a1"][Len(states["a1"])].block_number + 1
    /\ \E e \in events : e.contract_address = "a1" /\ e.block_number >= next_handle["a1"]

\* C16: an ingestion pass that fails with a repository error abandons the
\* current tick only: the ingester task is then waiting for its next tick,
\* it has not ended.
C16_IngesterSurvivesRepoError ==
    [][(IngesterStep /\ ing.pc \in {"main", "confirm"}) =>
         LET committed == IF ing.pc = "main"
                          THEN next_ingest' # next_ingest
                          ELSE reorged_blocks' # reorged_blocks
             nothing_to_commit ==
                 IF ing.pc = "main"
                 THEN FiltersNew(ing.contract_addresses, ing.current_block_number,
                                 cfg.blocks_per_batch, Main) = {}
                 ELSE ~MaybeBacktrackRun(Db, ing.contract_addresses,
                                         ing.current_block_number, TRUE).in_txn
         IN (~committed /\ ~nothing_to_commit) => ing'.pc = "tick"]_vars

HandlerStep == hnd' # hnd

\* C17: the two tasks write disjoint data.  No step of the ingester task
\* (main batch or reconciler) changes next_block_number_to_handle_from or a
\* handler write; no step of the handler task inserts or deletes an event,
\* inserts a ReorgedBlock or changes next_block_number_to_ingest_from.
C17_TasksWriteDisjointData ==
    [][/\ IngesterStep => /\ next_handle' = next_handle
                          /\ states' = states
       /\ HandlerStep => /\ events' = events
                         /\ reorged_blocks' = reorged_blocks
                         /\ next_ingest' = next_ingest]_vars

\* Both tasks are in the middle of a pass and each has written its part: a
\* repair and a later batch on one side, a committed page on the other.
C17_Witness ==
    /\ ing.pc = "confirm" /\ hnd.pc = "page"
    /\ reorged_blocks # <<>>
    /\ \E e \in events : e.block_number >= StartBlockNumber + 2
    /\ \E a \in Addresses : next_handle[a] > StartBlockNumber /\ states[a] # <<>>

(***************************************************************************)
(* Properties of the reconciler (specification SpecReconciler).            *)
(***************************************************************************)
SameEvents(evs1, evs2) == { Payload(e) : e \in evs1 } = { Payload(e) : e \in evs2 }

\* C9: when the reconciler has run to its end and runs again for the same
\* contract addresses against the same chain, the second run writes
\* nothing: no ReorgedBlock, no deletion, no insertion.
C9_SecondRunWritesNothing ==
    \A i \in 1..(Len(last) - 1) :
        (last[i].ok /\ last[i + 1].chain = last[i].chain) =>
            /\ ~last[i + 1].in_txn
            /\ ~last[i + 1].wrote

\* A first run that repaired the store, followed by a run on the same chain.
C9_Witness ==
    /\ Len(last) = 2
    /\ last[1].ok /\ last[1].wrote
    /\ last[1].added_events # {} /\ last[1].removed_events # {}
    /\ last[2].chain = last[1].chain

\* C10: when the already-ingested events and the live events of the
\* confirmation window are equal as sets under structural equality, the
\* diff has no added and no removed events and the run leaves the store
\* unchanged.
C10_EqualSetsNoWrites ==
    \A i \in 1..Len(last) :
        SameEvents(last[i].already_ingested_events, last[i].json_rpc_events) =>
            /\ last[i].added_events = {} /\ last[i].removed_events = {}
            /\ ~last[i].in_txn
            /\ ~last[i].wrote

\* A first run over equal, non-empty sets of events.
C10_Witness ==
    /\ Len(last) >= 1
    /\ last[1].already_ingested_events # {}
    /\ SameEvents(last[1].already_ingested_events, last[1].json_rpc_events)
    /\ events # {} /\ reorged_blocks = <<>>

\* C11: the reorg diff returns as added exactly the live events whose payload
\* (every field but the surrogate id, block_hash, transaction_hash and
\* log_index included) is the payload of no already-ingested event, and as
\* removed exactly the already-ingested events whose payload is the payload
\* of no live event.
C11_DiffByPayload ==
    \A i \in 1..Len(last) :
        LET r == last[i]
            stored == { Payload(e) : e \in r.already_ingested_events }
            live == { Payload(e) : e \in r.json_rpc_events }
        IN /\ r.added_events \subseteq r.json_rpc_events
           /\ r.removed_events \subseteq r.already_ingested_events
           /\ \A e \in r.json_rpc_events :
                 e \in r.added_events <=> Payload(e) \notin stored
           /\ \A e \in r.already_ingested_events :
                 e \in r.removed_events <=> Payload(e) \notin live

\* A run whose diff has added and removed events, next to an event that is
\* in both lists under two different ids and in neither side of the diff.
C11_Witness ==
    /\ Len(last) >= 1
    /\ last[1].added_events # {} /\ last[1].removed_events # {}
    /\ \E e \in last[1].already_ingested_events, f \in last[1].json_rpc_events :
          /\ Payload(e) = Payload(f) /\ e.id # f.id
          /\ e \notin last[1].removed_events /\ f \notin last[1].added_events

(***************************************************************************)
(* Properties of the fetches (specification SpecFetch).                    *)
(***************************************************************************)
\* C15: a fetch never ends on a provider error: after every error it waits
\* 2^n seconds, n being the number of retries so far (1, 2, 4, 8, ...),
\* and calls again, for any number of errors in a row; it returns only with
\* a successful result.
C15_ProviderErrorsRetriedWithBackoff ==
    /\ rpc.pc # "panicked"
    /\ rpc.pc = "returned" => rpc.maybe = "Some"
    /\ rpc.retries_so_far > 0 => rpc.slept = Pow2Secs(rpc.retries_so_far - 1)

(***************************************************************************)
(* Properties of get_migrations (specification SpecMigrations).            *)
(***************************************************************************)
\* A user migration that begins with CREATE TABLE IF NOT EXISTS.
IsCreate(user_migration) == StartsWith(user_migration, CreateTableIfNotExists)

\* The number of migrations that the user migrations before the i-th stand
\* for: three for each CREATE and one for each other.
Before(user, i) ==
    (i - 1) + 2 * Cardinality({ j \in 1..(i - 1) : IsCreate(user[j]) })

\* A user migration that holds one of the temporal keywords in any case.
HasTemporalKeyword(user_migration) ==
    \E keyword \in { <<" ", "time", "stamp">>, <<" ", "time", "stamp", "z">>,
                     <<" ", "date">>, <<" ", "time">> } :
        StrContains(ToLowercase(user_migration), keyword)

\* C18: for user migrations that pass validation, get_migrations returns
\* |user| + 2 * |creates| migrations: each CREATE TABLE IF NOT EXISTS
\* migration stands in place as three migrations (view table, versions
\* table, unique index), every other migration is unchanged at its place.
C18_PlanCardinality ==
    (mig.pc # "call" /\ \A i \in 1..Len(mig.user) : ~HasTemporalKeyword(mig.user[i])) =>
        /\ mig.pc = "returned"
        /\ Len(mig.migrations) = Before(mig.user, Len(mig.user) + 1)
        /\ \A i \in 1..Len(mig.user) :
             LET at == Before(mig.user, i)
             IN IF IsCreate(mig.user[i])
                THEN /\ StartsWith(mig.migrations[at + 1],
                                   CreateTableIfNotExists \o <<" ">>
                                   \o ExtractTableName(mig.user[i]))
                     /\ StartsWith(mig.migrations[at + 2],
                                   CreateTableIfNotExists \o <<" ">>
                                   \o STATE_VERSIONS_TABLE_PREFIX
                                   \o ExtractTableName(mig.user[i]))
                     /\ StartsWith(mig.migrations[at + 3],
                                   Words(<<"CREATE", "UNIQUE", "INDEX">>))
                ELSE mig.migrations[at + 1] = mig.user[i]

\* C19: the view-table migration of every CREATE TABLE IF NOT EXISTS
\* migration of the user holds each of the seven default column names
\* exactly once.
C19_DefaultColumnsOnce ==
    mig.pc = "returned" =>
        \A i \in 1..Len(mig.user) :
            IsCreate(mig.user[i]) =>
                \A field \in { DefaultMigrationGetFields[k] :
                               k \in 1..Len(DefaultMigrationGetFields) } :
                    MatchesCount(mig.migrations[Before(mig.user, i) + 1], <<field>>) = 1

\* C20: when any user migration, CREATE or not and at any place, holds a
\* temporal keyword in any case, get_migrations panics and returns no
\* migration, not even those of the valid migrations before it.
C20_TemporalKeywordIsFatal ==
    (mig.pc # "call" /\ \E i \in 1..Len(mig.user) : HasTemporalKeyword(mig.user[i])) =>
        mig.pc = "panicked" /\ mig.migrations = <<>>

C20_Witness ==
    /\ mig.pc = "panicked"
    /\ mig.user = <<NftStatesMigration, AddDateColumnMigration>>

\* The names of the columns of a CREATE TABLE migration: the first word of
\* every comma-separated text after the first opening parenthesis.
ColumnNames(migration) ==
    LET open == Find(migration, <<"(">>)
        each == Split(SubSeq(migration, open + 1, Len(migration)), ",")
    IN [k \in 1..Len(each) |-> SplitAsciiWhitespace(each[k])[1]]

\* The names of the seven default columns, each as a word.
DefaultColumnNames ==
    [k \in 1..Len(DefaultMigrationGetFields) |-> <<DefaultMigrationGetFields[k]>>]

\* The view-table and the versions-table migration of the i-th user
\* migration, a CREATE TABLE IF NOT EXISTS migration.
ViewTableMigration(i) == mig.migrations[Before(mig.user, i) + 1]
VersionsTableMigration(i) == mig.migrations[Before(mig.user, i) + 2]

AheadChoices == { {}, {"a2"} }

InitIngester ==
    /\ head = StartBlockNumber + 1
    /\ \E logs \in BlockLogs :
         chain = [n \in Blocks |->
                    IF n = StartBlockNumber + 1 THEN [hash |-> 0, logs |-> logs]
                    ELSE EmptyBlock]
    /\ reorgs = 0
    /\ cfg \in [blocks_per_batch : 1..MaxBlocksPerBatch,
                 min_confirmation_count : {MinConfirmationCount}]
    /\ \E Ahead \in AheadChoices :
         /\ next_ingest = [a \in Addresses |->
                             IF a \in Ahead THEN StartBlockNumber + 2
                             ELSE StartBlockNumber]
         /\ events = EventsNew({}, UNION { GetLogs(a, StartBlockNumber, StartBlockNumber + 1) :
                                           a \in Ahead })
    /\ next_handle = [a \in Addresses |-> StartBlockNumber]
    /\ reorged_blocks = <<>>
    /\ states = [a \in Addresses |-> <<>>]
    /\ invoked = [a \in Addresses |-> <<>>]
    /\ ing = [pc |-> "tick", current_block_number |-> 0, contract_addresses |-> {}]
    /\ hnd = [pc |-> "tick", todo |-> <<>>, pos |-> 0]
    /\ last = <<>>
    /\ rpc = RpcIdle
    /\ mig = MigIdle
    /\ net = NetIdle

NextIngester ==
    \/ AdvanceHead
    \/ Reorg
    \/ IngestStart
    \/ IngestEventsRun
    \/ MaybeBacktrackIngestedEventsRun

SpecIngester == InitIngester /\ [][NextIngester]_vars

\* The interval of EventsIngester::start ticks for ever and every await of
\* a pass returns: each step of the task is taken when it stays enabled.
SpecIngesterFair ==
    /\ SpecIngester
    /\ WF_vars(IngestStart)
    /\ WF_vars(IngestEventsRun)
    /\ WF_vars(MaybeBacktrackIngestedEventsRun)

(***************************************************************************)
(* Properties of the ingester (SpecIngester, SpecIngesterFair).            *)
(***************************************************************************)
\* A committed main batch moves the cursor of every contract address that
\* was below current_block_number up, and not above current_block_number + 1.
MainBatchAdvances ==
    (ing.pc = "main" /\ ing'.pc = "confirm") =>
        \A a \in Addresses :
            next_ingest[a] < ing.current_block_number =>
                /\ next_ingest'[a] > next_ingest[a]
                /\ next_ingest'[a] <= ing.current_block_number + 1

EventsOf(store, a) == { e \in store : e.contract_address = a }

\* The contract addresses the running pass has filters for: those that
\* filter_uningested_contract_addresses kept.
InPass(a) == \E ca \in ing.contract_addresses : ca.address = a

\* C23: a pass leaves a caught-up contract address untouched.  The address
\* whose cursor is at or above current_block_number is not kept by the
\* filter at the start of the pass; no step of the pass moves the cursor of
\* an address that was not kept, inserts or deletes an event of it, or
\* writes a ReorgedBlock without a change in the events of a kept address.
C23_CaughtUpAddressUntouched ==
    [][/\ (ing.pc = "tick" /\ ing'.pc = "main") =>
            \A a \in Addresses :
                next_ingest[a] >= ing'.current_block_number =>
                    \A ca \in ing'.contract_addresses : ca.address # a
       /\ (ing.pc \in {"main", "confirm"} /\ ing' # ing) =>
            /\ \A a \in Addresses :
                 ~InPass(a) =>
                    /\ next_ingest'[a] = next_ingest[a]
                    /\ EventsOf(events', a) = EventsOf(events, a)
            /\ reorged_blocks' # reorged_blocks =>
                 \E a \in Addresses :
                    InPass(a) /\ EventsOf(events', a) # EventsOf(events, a)]_vars

\* A pass has ended in which a1 was repaired and a2, which has events, was
\* caught up.
C23_Witness ==
    /\ ing.pc = "tick"
    /\ InPass("a1")
    /\ ~InPass("a2")
    /\ EventsOf(events, "a2") # {}
    /\ reorged_blocks # <<>>

(***************************************************************************)
(* The handler on its own (specification SpecHandler): one store of        *)
(* events of both contract addresses, some of them flagged removed, and    *)
(* the passes of HandleEvents::run over it.                                *)
(***************************************************************************)
\* A row of chaindexing_events for the log li of address a in block b.
StoredEvent(a, b, li, removed) ==
    LET p == [contract_address |-> a, block_number |-> b, block_hash |-> 0,
              transaction_hash |-> <<b, li>>, transaction_index |-> li,
              log_index |-> li, removed |-> removed]
    IN WithId(p, <<p, 0>>)

HandlerRows ==
    { StoredEvent("a1", StartBlockNumber + 1, 0, FALSE),
      StoredEvent("a1", StartBlockNumber + 1, 2, TRUE),
      StoredEvent("a2", StartBlockNumber + 1, 1, FALSE),
      StoredEvent("a1", StartBlockNumber + 2, 0, FALSE),
      StoredEvent("a2", StartBlockNumber + 2, 1, TRUE),
      StoredEvent("a2", StartBlockNumber + 2, 3, FALSE) }

InitHandler ==
    /\ head = StartBlockNumber + 2
    /\ chain = [n \in Blocks |-> EmptyBlock]
    /\ reorgs = 0
    /\ cfg = [blocks_per_batch |-> MaxBlocksPerBatch,
              min_confirmation_count |-> MinConfirmationCount]
    /\ next_ingest = [a \in Addresses |-> StartBlockNumber + 3]
    /\ next_handle \in [Addresses -> {StartBlockNumber, StartBlockNumber + 2}]
    /\ events \in SUBSET HandlerRows
    /\ reorged_blocks = <<>>
    /\ states = [a \in Addresses |-> <<>>]
    /\ invoked = [a \in Addresses |-> <<>>]
    /\ ing = [pc |-> "tick", current_block_number |-> 0, contract_addresses |-> {}]
    /\ hnd = [pc |-> "tick", todo |-> <<>>, pos |-> 0]
    /\ last = <<>>
    /\ rpc = RpcIdle
    /\ mig = MigIdle
    /\ net = NetIdle

NextHandler == HandleStart \/ HandleNextContractAddress \/ HandlePage

SpecHandler == InitHandler /\ [][NextHandler]_vars

(***************************************************************************)
(* Properties of the handler (specification SpecHandler).                  *)
(***************************************************************************)
\* The events passed to the handlers of contract address a in this step.
NewlyInvoked(a) ==
    { invoked'[a][i] : i \in (Len(invoked[a]) + 1)..Len(invoked'[a]) }

\* C24: while contract address A is processed, a handler is invoked only
\* with events of A that are not flagged removed and whose block_number is
\* at or above the next_block_number_to_handle_from of A as read at the
\* start of the pass; no handler is invoked on behalf of another address.
C24_HandlerGetsOwnLiveEvents ==
    [][invoked' # invoked =>
         /\ hnd.pc = "page"
         /\ \A a \in Addresses :
              \A e \in NewlyInvoked(a) :
                 /\ a = hnd.todo[1].address
                 /\ e.contract_address = a
                 /\ ~e.removed
                 /\ e.block_number >= hnd.todo[1].next_block_number_to_handle_from]_vars

\* The handlers of a1 were invoked from a page that also holds an event of
\* a1 flagged removed and an event of a2.
C24_Witness ==
    /\ invoked["a1"] # <<>>
    /\ \E e, f \in events :
         /\ e.contract_address = "a1" /\ e.removed
         /\ f.contract_address = "a2"
         /\ e.block_number = invoked["a1"][1].block_number
         /\ f.block_number = invoked["a1"][1].block_number

(***************************************************************************)
(* Further properties of the pipeline (specification Spec).                *)
(***************************************************************************)
\* The events passed to a handler of contract address a so far.
Delivered(a) == { invoked[a][i] : i \in 1..Len(invoked[a]) }

\* C25: in every committed state, every persisted event of a contract
\* address that is not flagged removed and was not yet passed to a handler
\* has a block_number at or above the next_block_number_to_handle_from of
\* the address, and no event was passed to a handler twice.
C25_NoEventSkippedOrHandledTwice ==
    \A a \in Addresses :
        /\ \A e \in EventsOf(events, a) :
              (~e.removed /\ e \notin Delivered(a)) => e.block_number >= next_handle[a]
        /\ \A i, j \in 1..Len(invoked[a]) :
              i # j => invoked[a][i].id # invoked[a][j].id

(***************************************************************************)
(* Further properties of the ingester (specification SpecIngester).        *)
(***************************************************************************)
\* C26: every event the reconciler inserts or deletes has a block_number
\* below the persisted next_block_number_to_ingest_from of its contract
\* address.
C26_ReconcilerRepairsBelowIngestCursor ==
    [][(ing.pc = "confirm" /\ ing' # ing) =>
          \A e \in (events' \ events) \cup (events \ events') :
              e.block_number < next_ingest[e.contract_address]]_vars

(***************************************************************************)
(* Several chains.  Config.chains holds the chains of ChainOrder, each     *)
(* with its JSON-RPC endpoint; the contract address a1 is registered with  *)
(* the chain_id of the first chain and a2 with that of the second.  head   *)
(* and chain are what the endpoint of the running pass answers; net.chains *)
(* holds every chain, net.chain the chain of the running pass and net.i    *)
(* the position of the loop over Config.chains.                            *)
(***************************************************************************)
\* chain_id of the row of a contract address.
ChainIdOf(a) == IF a = "a1" THEN ChainOrder[1] ELSE ChainOrder[2]

\* A block of chain c: the chains do not share block hashes.
ChainBlock(c, logs) == [hash |-> IF c = ChainOrder[1] THEN 0 ELSE 1, logs |-> logs]

InitChains ==
    /\ \E logs \in [Chains -> BlockLogs] :
         net = [i |-> 1,
                chain |-> ChainOrder[1],
                chains |-> [c \in Chains |->
                    [head |-> StartBlockNumber + 1,
                     blocks |-> [n \in Blocks |->
                                   IF n = StartBlockNumber + 1
                                   THEN ChainBlock(c, logs[c])
                                   ELSE EmptyBlock]]]]
    /\ head = net.chains[net.chain].head
    /\ chain = net.chains[net.chain].blocks
    /\ reorgs = 0
    /\ cfg \in [blocks_per_batch : 1..MaxBlocksPerBatch,
                 min_confirmation_count : {MinConfirmationCount}]
    /\ next_ingest = [a \in Addresses |-> StartBlockNumber]
    /\ next_handle = [a \in Addresses |-> StartBlockNumber]
    /\ events = {}
    /\ reorged_blocks = <<>>
    /\ states = [a \in Addresses |-> <<>>]
    /\ invoked = [a \in Addresses |-> <<>>]
    /\ ing = [pc |-> "tick", current_block_number |-> 0, contract_addresses |-> {}]
    /\ hnd = [pc |-> "tick", todo |-> <<>>, pos |-> 0]
    /\ last = <<>>
    /\ rpc = RpcIdle
    /\ mig = MigIdle

\* A new block on one of the chains.
ChainsAdvanceHead ==
    /\ ing.pc # "dead"
    /\ \E c \in Chains, logs \in BlockLogs :
         LET h == net.chains[c].head + 1
             blocks == [net.chains[c].blocks EXCEPT ![h] = ChainBlock(c, logs)]
         IN /\ net.chains[c].head < MaxBlock
            /\ net' = [net EXCEPT !.chains[c] = [head |-> h, blocks |-> blocks]]
            /\ IF c = net.chain
               THEN head' = h /\ chain' = blocks
               ELSE UNCHANGED <<head, chain>>
    /\ UNCHANGED <<mig, rpc, last, reorgs, cfg, next_ingest, next_handle, events,
                   reorged_blocks, states, invoked, ing, hnd>>

\* The next iteration of the loop over Config.chains: the provider of the
\* chain's json_rpc_url, fetch_current_block_number from it, then the page
\* of get_contract_addresses_stream(conn), filtered to the uningested ones.
ChainsIngestStart ==
    /\ ing.pc = "tick"
    /\ LET c == ChainOrder[net.i]
           json_rpc == net.chains[c]
       IN /\ net' = [net EXCEPT !.i = (net.i % Len(ChainOrder)) + 1, !.chain = c]
          /\ head' = json_rpc.head
          /\ chain' = json_rpc.blocks
          /\ ing' = [pc |-> "main",
                     current_block_number |-> json_rpc.head,
                     contract_addresses |->
                         FilterUningestedContractAddresses(ContractAddressRows,
                                                           json_rpc.head)]
    /\ UNCHANGED <<mig, rpc, last, reorgs, cfg, next_ingest, next_handle, events,
                   reorged_blocks, states, invoked, hnd>>

\* The reconciler step of the pass of the chain net.chain.
ChainsMaybeBacktrackIngestedEventsRun ==
    /\ ing.pc = "confirm"
    /\ \E ok \in BOOLEAN :
         LET r == MaybeBacktrackRunFor(net.chain, Db, ing.contract_addresses,
                                       ing.current_block_number, ok)
         IN /\ r.ok = ok
            /\ events' = r.db.events
            /\ reorged_blocks' = r.db.reorged_blocks
            /\ ing' = [ing EXCEPT !.pc = IF ok THEN "tick" ELSE "dead"]
    /\ UNCHANGED <<net, mig, head, chain, reorgs, cfg, next_ingest, next_handle,
                   states, invoked, hnd, last, rpc>>

NextChains ==
    \/ ChainsAdvanceHead
    \/ ChainsIngestStart
    \/ IngestEventsRun
    \/ ChainsMaybeBacktrackIngestedEventsRun

SpecChains == InitChains /\ [][NextChains]_vars

\* The filters the step of the running pass builds.
PassFilters ==
    IF ing.pc = "main"
    THEN FiltersNew(ing.contract_addresses, ing.current_block_number,
                    cfg.blocks_per_batch, Main)
    ELSE IF ing.pc = "confirm"
    THEN FiltersNew(ing.contract_addresses, ing.current_block_number,
                    cfg.blocks_per_batch, Confirmation(cfg.min_confirmation_count))
    ELSE {}

\* A step of the pass of net.chain touches only the contract addresses of
\* that chain.
OwnChainOnly ==
    (ing.pc \in {"main", "confirm"} /\ ing'.pc # ing.pc) =>
        /\ \A f \in PassFilters : ChainIdOf(f.address) = net.chain
        /\ \A a \in Addresses :
             ChainIdOf(a) # net.chain =>
                 /\ next_ingest'[a] = next_ingest[a]
                 /\ EventsOf(events', a) = EventsOf(events, a)
        /\ \A k \in (Len(reorged_blocks) + 1)..Len(reorged_blocks') :
             \A e \in (events' \ events) \cup (events \ events') :
                 reorged_blocks'[k].chain_id = ChainIdOf(e.contract_address)

\* C27: with several chains configured, the pass run for a chain with that
\* chain's JSON-RPC endpoint and current block number builds filters only
\* for contract addresses whose chain_id is that chain, advances the ingest
\* cursor and inserts or deletes events only of those contract addresses,
\* and every ReorgedBlock it writes carries the chain_id of the contract
\* addresses whose events it repaired.
C27_OwnChainOnly == [][OwnChainOnly]_vars

====
